---- MODULE Spec2Model ----
(***************************************************************************)
(* A model of the numerical analysis engine of case_rate:                  *)
(*   analysis/least_squares.py  LeastSquares                              *)
(*   analysis/timeseries.py     TimeSeries                                *)
(*   analysis/operations.py     growth_factor, _sequence_growth_factor    *)
(*   analysis/predict.py        DailyCasesPredictor                       *)
(*   filters.py                 select, sum_by_date                       *)
(*                                                                         *)
(* Arrays are sequences (1-based here, 0-based in the source: the source's *)
(* index i is position i+1).  A call that raises is the record Raise(e),   *)
(* one that returns is Return(v).  Real-valued results that integer        *)
(* arithmetic cannot reproduce are kept as exact symbolic terms: a fitted  *)
(* regressor is the triple of inputs it was fitted on, a logarithm is the  *)
(* term Log(v), a growth factor is "zero", "nan" or the fit it is read     *)
(* from.                                                                   *)
(***************************************************************************)
EXTENDS Integers, Sequences, FiniteSets, TLC

VARIABLES
    samples,             \* TimeSeries._samples of the series in hand (None: not built)
    start,               \* TimeSeries._start of that series, as a day number
    train_returned,      \* whether some train call on the predictor has returned
    cfg,                 \* the predictor's constructor arguments
    model,               \* DailyCasesPredictor._model
    training_indices,    \* DailyCasesPredictor._training_indices
    validation_indices,  \* DailyCasesPredictor._validation_indices
    training_samples,    \* DailyCasesPredictor._training_samples
    validation_samples,  \* DailyCasesPredictor._validation_samples
    call                 \* the call being made, or the last one made, and its outcome

vars == <<samples, start, train_returned, cfg, model, training_indices, validation_indices,
          training_samples, validation_samples, call>>

predictor == <<train_returned, cfg, model, training_indices, validation_indices,
               training_samples, validation_samples>>

(***************************************************************************)
(* Bounds of the model.                                                    *)
(***************************************************************************)
MaxSamples == 3      \* longest array handed to a LeastSquares constructor directly
MaxTime == 2         \* largest time value in such an array
MaxValue == 1        \* largest measured value in such an array
MaxOrder == 2        \* largest polynomial order requested
MaxDay == 4          \* latest calendar day of a dated record (days are 0..MaxDay)
MaxCount == 1        \* largest count a single dated record reports
MaxRecords == 3      \* longest list of dated records handed to TimeSeries
MaxMinValue == 1     \* largest min_value threshold handed to TimeSeries
MaxRows == 4         \* longest series handed to local_regression and growth_factor
MaxWindow == 6       \* largest window size requested
MaxAnalysisWindow == 3  \* largest analysis_window a predictor is built with
MaxLag == 1          \* largest reporting_lag a predictor is built with
MaxDays == 2         \* largest num_days / days asked of a predictor
MaxSeries == 5       \* longest series a predictor is trained on

\* Python's None is the empty tuple and a present value x is <<x>>; a series or an
\* index array is its sequence of entries.
None == <<>>
Some(x) == <<x>>

\* A call that raises carries no value; 'produced' counts the regressors or output
\* rows completed before the exception left the call.
Raise(e) == [ok |-> FALSE, error |-> e, produced |-> 0]
RaiseAfter(e, k) == [ok |-> FALSE, error |-> e, produced |-> k]
Return(v) == [ok |-> TRUE, value |-> v]

Pending(op, args) == [op |-> op, args |-> args, status |-> "pending"]
Done(op, args, r) == [op |-> op, args |-> args, status |-> "done", result |-> r]

Max(a, b) == IF a >= b THEN a ELSE b
Min(a, b) == IF a <= b THEN a ELSE b

\* All sequences over S of length lo..hi.
SeqsOf(S, lo, hi) == UNION {[1..n -> S] : n \in lo..hi}

\* np.arange(a, b): a, a+1, ..., b-1 (empty when b <= a).
Arange(a, b) == [i \in 1..Max(b - a, 0) |-> a + i - 1]

\* The values of a sequence, as a set.
Range(s) == {s[i] : i \in 1..Len(s)}

(***************************************************************************)
(* least_squares.py                                                        *)
(***************************************************************************)

\* A plausible slip in the sample-count guard: '<' for '<='.
LeastSquaresOffByOne(times, values, order) ==
    IF Len(values) # Len(times) THEN Raise("ValueError")
    ELSE IF Len(values) < order + 1 THEN Raise("ValueError")
    ELSE Return([times |-> times, values |-> values, order |-> order,
                 dof |-> Len(values) - (order + 1)])

\* LeastSquares.__init__.  The fit is a function of (times, values, order), so the
\* regressor is represented by exactly these, with its degrees of freedom N - K.
\* X'X is singular, and np.linalg.inv raises, when fewer than K distinct times
\* are given (the Vandermonde matrix then has rank below K).
LeastSquares(times, values, order) ==
    IF Len(values) # Len(times) THEN Raise("ValueError")
    ELSE IF Len(values) <= order + 1 THEN Raise("ValueError")
    ELSE IF Cardinality(Range(times)) < order + 1 THEN Raise("LinAlgError")
    ELSE Return([times |-> times, values |-> values, order |-> order,
                 dof |-> Len(values) - (order + 1)])

(***************************************************************************)
(* _types.py and filters.py.  A datum is a dated record; 'confirmed' is    *)
(* the field the series is built from (datum._asdict()[field]).            *)
(***************************************************************************)

\* Cases.__add__ on the date and the selected count of two same-date records.
AddCases(a, b) == [date |-> a.date, confirmed |-> a.confirmed + b.confirmed]

\* sorted(..., key=date): a stable insertion sort, one record at a time.
RECURSIVE InsertByDate(_, _)
InsertByDate(sorted, x) ==
    IF sorted = <<>> THEN <<x>>
    ELSE IF Head(sorted).date <= x.date
         THEN <<Head(sorted)>> \o InsertByDate(Tail(sorted), x)
         ELSE <<x>> \o sorted

RECURSIVE SortedByDate(_)
SortedByDate(s) ==
    IF s = <<>> THEN <<>>
    ELSE InsertByDate(SortedByDate(SubSeq(s, 1, Len(s) - 1)), s[Len(s)])

\* filters.select: keep the records fn accepts, sorted by date.
Select(cases, fn(_)) == SortedByDate(SelectSeq(cases, fn))

\* The loop of sum_by_date: 'summed' maps each date seen so far to its total.
RECURSIVE SumLoop(_, _)
SumLoop(summed, cases) ==
    IF cases = <<>> THEN summed
    ELSE LET c == Head(cases)
         IN IF c.date \in DOMAIN summed
            THEN SumLoop([summed EXCEPT ![c.date] = AddCases(summed[c.date], c)],
                         Tail(cases))
            ELSE SumLoop((c.date :> c) @@ summed, Tail(cases))

\* sorted(summed.keys())
RECURSIVE SortedKeys(_)
SortedKeys(S) ==
    IF S = {} THEN <<>>
    ELSE LET m == CHOOSE x \in S : \A y \in S : x <= y
         IN <<m>> \o SortedKeys(S \ {m})

\* filters.sum_by_date
SumByDate(cases) ==
    LET summed == SumLoop(<<>>, cases)
        dates == SortedKeys(DOMAIN summed)
    IN [i \in 1..Len(dates) |-> summed[dates[i]]]

(***************************************************************************)
(* timeseries.py: TimeSeries.__init__                                      *)
(***************************************************************************)

\* Lines 59-62 with the back-fill left out: the skipped days keep their zeros.
GapFillNone(s, d, i) == s

\* Lines 59-62 of the loop body for the record at position i (the source's i - 1):
\* when its day index runs ahead of its position, the days from the previous
\* record's day up to the day before its own take the previous record's sample.
GapFill(s, d, i) ==
    LET index == d[i].date - d[1].date
    IN IF index > i - 1
       THEN LET last_index == d[i - 1].date - d[1].date
            IN [j \in 1..Len(s) |->
                   IF last_index <= j - 1 /\ j - 1 < index
                   THEN s[last_index + 1] ELSE s[j]]
       ELSE s

\* The loop of lines 50-64 from position i on.
RECURSIVE FillLoop(_, _, _, _)
FillLoop(s, d, min_value, i) ==
    IF i > Len(d) THEN s
    ELSE IF d[i].confirmed < min_value THEN FillLoop(s, d, min_value, i + 1)
    ELSE LET index == d[i].date - d[1].date
             filled == GapFill(s, d, i)
         IN FillLoop([filled EXCEPT ![index + 1] = d[i].confirmed],
                     d, min_value, i + 1)

\* TimeSeries.__init__: data[0] of an empty list raises IndexError.
TimeSeriesInit(data, min_value) ==
    LET selected == Select(data, LAMBDA x : x.confirmed >= min_value)
        d == SumByDate(selected)
    IN IF d = <<>> THEN Raise("IndexError")
       ELSE LET duration == (d[Len(d)].date - d[1].date) + 1
                zeros == [j \in 1..duration |-> 0]
            IN Return([start |-> d[1].date,
                       samples |-> FillLoop(zeros, d, min_value, 1)])

\* TimeSeries.daily_change: np.diff left-padded with one zero.
DailyChange(x) == [i \in 1..Len(x) |-> IF i = 1 THEN 0 ELSE x[i] - x[i - 1]]

\* np.squeeze of a one-dimensional array: the axis is dropped when its length is
\* 1, which leaves a 0-dimensional array holding the one entry.
Squeeze(a) == [shape |-> IF Len(a) = 1 THEN <<>> ELSE <<Len(a)>>, entries |-> a]

\* TimeSeries.dates
Dates(first, N) == [i \in 1..N |-> first + (i - 1)]

\* np.log(v), kept as a term.
Log(v) == <<"log", v>>

\* The clipped window of index i (0-based) in an array of N entries: the source's
\* i_min and i_max - 1 (lines 124-125, and lines 154-155 of operations.py).
WindowMin(i, window) == Max(0, i - (window \div 2))
\* The upper end without the + 1 that makes the slice include it.
WindowMaxExcluded(i, N, window) == Min(N - 1, i + (window \div 2)) - 1
WindowMax(i, N, window) == Min(N - 1, i + (window \div 2))

\* The loop of lines 123-128 from index i (0-based) on; an exception of the
\* LeastSquares constructor leaves the loop and the call.
RECURSIVE RegressionLoop(_, _, _, _, _)
RegressionLoop(x, window, order, i, acc) ==
    IF i >= Len(x) THEN Return(acc)
    ELSE LET i_min == WindowMin(i, window)
             i_max == WindowMax(i, Len(x), window) + 1
             ls == LeastSquares(Arange(i_min, i_max), SubSeq(x, i_min + 1, i_max), order)
         IN IF ls.ok
            THEN RegressionLoop(x, window, order, i + 1, Append(acc, ls.value))
            ELSE RaiseAfter(ls.error, Len(acc))

\* The window-size guard off by one: a window of two days is let through.
LocalRegressionLateGuard(x, window, log_domain, order) ==
    LET y == IF log_domain THEN [i \in 1..Len(x) |-> Log(x[i])] ELSE x
    IN IF window < 2 THEN Raise("ValueError")
       ELSE RegressionLoop(y, window, order, 0, <<>>)

\* TimeSeries._local_regression (local_regression to its callers in operations.py).
LocalRegression(x, window, log_domain, order) ==
    LET y == IF log_domain THEN [i \in 1..Len(x) |-> Log(x[i])] ELSE x
    IN IF window < 3 THEN Raise("ValueError")
       ELSE RegressionLoop(y, window, order, 0, <<>>)

(***************************************************************************)
(* operations.py: estimate_slope, _sequence_growth_factor, growth_factor   *)
(***************************************************************************)

\* np.log(v + 1e-10), kept as a term.
LogEps(v) == <<"logeps", v>>

\* A growth factor: exactly 0, NaN, or np.exp(ls.weights[1]) of a fitted line.
Zero == [kind |-> "zero"]
NaN == [kind |-> "nan"]
ExpSlope(ls) == [kind |-> "exp", ls |-> ls]

IsNaN(g) == g.kind = "nan"

\* x[valid]: the entries at the positions in V, in order.
RECURSIVE Keep(_, _)
Keep(x, V) ==
    IF x = <<>> THEN <<>>
    ELSE LET n == Len(x)
             front == Keep(SubSeq(x, 1, n - 1), V)
         IN IF n \in V THEN Append(front, x[n]) ELSE front

\* The first test compares with 0 instead of 0.5: an all-zero window is fitted.
GrowthAtNoZeroCase(sequence, window, i) ==
    LET i_min == WindowMin(i, window)
        i_max == WindowMax(i, Len(sequence), window) + 1
        x == SubSeq(sequence, i_min + 1, i_max)
        t == Arange(i_min, i_max)
        valid == {j \in 1..Len(x) : ~(x[j] < 0)}
    IN IF \A j \in 1..Len(x) : x[j] < 0 THEN Return(Zero)
       ELSE IF Cardinality(valid) < 3 THEN Return(NaN)
       ELSE LET xv == Keep(x, valid)
                 ls == LeastSquares(Keep(t, valid),
                                    [j \in 1..Len(xv) |-> LogEps(xv[j])], 1)
            IN IF ls.ok THEN Return(ExpSlope(ls.value)) ELSE Raise(ls.error)

\* The minimum number of valid points is one too high.
GrowthAtFourPoints(sequence, window, i) ==
    LET i_min == WindowMin(i, window)
        i_max == WindowMax(i, Len(sequence), window) + 1
        x == SubSeq(sequence, i_min + 1, i_max)
        t == Arange(i_min, i_max)
        valid == {j \in 1..Len(x) : ~(x[j] < 0)}
    IN IF \A j \in 1..Len(x) : 2 * x[j] < 1 THEN Return(Zero)
       ELSE IF \A j \in 1..Len(x) : x[j] < 0 THEN Return(NaN)
       ELSE IF Cardinality(valid) < 4 THEN Return(NaN)
       ELSE LET xv == Keep(x, valid)
                 ls == LeastSquares(Keep(t, valid),
                                    [j \in 1..Len(xv) |-> LogEps(xv[j])], 1)
            IN IF ls.ok THEN Return(ExpSlope(ls.value)) ELSE Raise(ls.error)

\* The body of the loop of _sequence_growth_factor (lines 154-195) for index i
\* (0-based).  'x < 0.5' on integers is 2 * x < 1.  An exception of the
\* LeastSquares constructor would leave the call.
GrowthAt(sequence, window, i) ==
    LET i_min == WindowMin(i, window)
        i_max == WindowMax(i, Len(sequence), window) + 1
        x == SubSeq(sequence, i_min + 1, i_max)
        t == Arange(i_min, i_max)
        valid == {j \in 1..Len(x) : ~(x[j] < 0)}
    IN IF \A j \in 1..Len(x) : 2 * x[j] < 1 THEN Return(Zero)
       ELSE IF \A j \in 1..Len(x) : x[j] < 0 THEN Return(NaN)
       ELSE IF Cardinality(valid) < 3 THEN Return(NaN)
       ELSE LET xv == Keep(x, valid)
                 ls == LeastSquares(Keep(t, valid),
                                    [j \in 1..Len(xv) |-> LogEps(xv[j])], 1)
            IN IF ls.ok THEN Return(ExpSlope(ls.value)) ELSE Raise(ls.error)

\* _sequence_growth_factor
SequenceGrowthFactor(sequence, window) ==
    LET at == [i \in 1..Len(sequence) |-> GrowthAt(sequence, window, i - 1)]
        failed == {i \in 1..Len(sequence) : ~at[i].ok}
    IN IF failed # {}
       THEN LET first == CHOOSE i \in failed : \A j \in failed : i <= j
            IN RaiseAfter(at[first].error, first - 1)
       ELSE Return([i \in 1..Len(sequence) |-> at[i].value])

\* estimate_slope.  Its rows (slope, upper, lower) are evalpoly(derivative(w), i),
\* evalpoly(derivative(w + cv), i) and evalpoly(derivative(w - cv), i), where cv is
\* a Student-t quantile times a square root: numbers integer arithmetic cannot
\* reproduce.  'slopes' is the array the call computes for the series, the order
\* and the confidence level in hand; what the code fixes is the failure of the
\* local regression, which is computed here.
EstimateSlope(x, window, order, slopes) ==
    LET regressions == LocalRegression(x, window, FALSE, order)
    IN IF regressions.ok THEN Return(slopes) ELSE regressions

RECURSIVE SumSeq(_)
SumSeq(s) == IF s = <<>> THEN 0 ELSE Head(s) + SumSeq(Tail(s))

\* log(v + 1e-10) for v in {0, 1}, in units of log(1 + 1e-10) - log(1e-10) > 0 and
\* up to the additive constant log(1 + 1e-10), which the slope of a fit does not
\* see.  Other values have logarithms that are no rational multiple of this unit.
LogUnits(term) == CASE term[2] = 0 -> -1 [] term[2] = 1 -> 0

\* weights[1] of an order-1 fit by the normal equations (lines 146-154):
\* (N * sum(t*y) - sum(t) * sum(y)) / (N * sum(t*t) - sum(t)^2), numerator and
\* denominator, in the unit of LogUnits.
Weight1Num(ls) ==
    LET n == Len(ls.times)
        y == [j \in 1..n |-> LogUnits(ls.values[j])]
    IN n * SumSeq([j \in 1..n |-> ls.times[j] * y[j]]) - SumSeq(ls.times) * SumSeq(y)

Weight1Den(ls) ==
    LET n == Len(ls.times)
    IN n * SumSeq([j \in 1..n |-> ls.times[j] * ls.times[j]])
       - SumSeq(ls.times) * SumSeq(ls.times)

\* a < b for two growth factors that are not NaN (exp is increasing and positive).
Less(a, b) ==
    IF a.kind = "zero" THEN b.kind = "exp"
    ELSE IF b.kind = "zero" THEN FALSE
    ELSE Weight1Num(a.ls) * Weight1Den(b.ls) < Weight1Num(b.ls) * Weight1Den(a.ls)

\* Lines 239-241: the two interval entries of a row whose best fit is 0 become 0.
ZeroIntervals(row) == IF row[1] = Zero THEN <<row[1], Zero, Zero>> ELSE row

\* np.argmin over the two interval entries <<upper, lower>>: the first NaN if
\* there is one, else the first smallest.
ArgMin(upper, lower) ==
    IF IsNaN(upper) THEN 0
    ELSE IF IsNaN(lower) THEN 1
    ELSE IF Less(lower, upper) THEN 1 ELSE 0

\* Lines 245-254: a row whose argmin is not column 0 has its two entries exchanged.
SortIntervals(row) ==
    IF ArgMin(row[2], row[3]) # 0 THEN <<row[1], row[3], row[2]>> ELSE row

\* growth_factor.  The value holds the three columns as _sequence_growth_factor
\* returns them (line 234) and the array that is returned.
GrowthFactor(x, window, order, slopes) ==
    IF window < 3 THEN Raise("ValueError")
    ELSE LET est == EstimateSlope(x, window, order, slopes)
         IN IF ~est.ok THEN Raise(est.error)
            ELSE LET N == Len(est.value)
                     best == SequenceGrowthFactor([i \in 1..N |-> est.value[i][1]], window)
                     upper == SequenceGrowthFactor([i \in 1..N |-> est.value[i][2]], window)
                     lower == SequenceGrowthFactor([i \in 1..N |-> est.value[i][3]], window)
                 IN IF ~best.ok THEN Raise(best.error)
                    ELSE IF ~upper.ok THEN Raise(upper.error)
                    ELSE IF ~lower.ok THEN Raise(lower.error)
                    ELSE LET columns == [i \in 1..N |->
                                 <<best.value[i], upper.value[i], lower.value[i]>>]
                         IN Return([columns |-> columns,
                                    output |-> [i \in 1..N |->
                                        SortIntervals(ZeroIntervals(columns[i]))]])

(***************************************************************************)
(* operations.py: estimate_growth.  predict.py imports and calls it, and   *)
(* cli/analyze.py reads its result as one growth factor (or NaN) per day;  *)
(* its body is not among the source files.  It is modelled from the        *)
(* specification's description of the growth factor: the windowed slices   *)
(* of daily_change, each reduced as _sequence_growth_factor reduces them,  *)
(* with the window-size check the specification gives every windowed       *)
(* operation.                                                              *)
(***************************************************************************)
EstimateGrowth(x, window) ==
    IF window < 3 THEN Raise("ValueError")
    ELSE SequenceGrowthFactor(DailyChange(x), window)

(***************************************************************************)
(* predict.py: DailyCasesPredictor                                         *)
(***************************************************************************)

\* __init__ (lines 37-40): a filter_window that is not positive is the analysis
\* window.
PredictorCfg(analysis_window, reporting_lag, model_order, filter_window) ==
    [analysis_window |-> analysis_window, reporting_lag |-> reporting_lag,
     model_order |-> model_order,
     filter_window |-> IF filter_window > 0 THEN filter_window ELSE analysis_window]

\* Real-valued results, kept as terms over the regressor they are read from.
Value(ls, t) == <<"value", ls, t>>                      \* ls.value(t)
ConfidenceFit(ls, t, alpha) == <<"confidence_fit", ls, t, alpha>>
PredictionFit(ls, t, alpha) == <<"prediction_fit", ls, t, alpha>>
Plus(a, b) == <<"add", a, b>>
Minus(a, b) == <<"sub", a, b>>
Times(a, b) == <<"mul", a, b>>

\* np.exp(v) and np.exp(v) - 1, kept as terms.
Exp(v) == <<"exp", v>>
ExpMinusOne(v) == <<"expm1", v>>

\* TimeSeries.__getitem__ with an integer index.
GetItem(x, ind) ==
    IF ind < -Len(x) \/ ind > Len(x) - 1 THEN Raise("IndexError")
    ELSE Return(IF ind < 0 THEN x[Len(x) + ind + 1] ELSE x[ind + 1])

\* operations.py: smooth.  output[i] = ls.value(i), through np.exp in the log
\* domain.
Smooth(x, window, log_domain, order) ==
    LET regressions == LocalRegression(x, window, log_domain, order)
    IN IF ~regressions.ok THEN regressions
       ELSE Return([i \in 1..Len(x) |->
                       IF log_domain THEN Exp(Value(regressions.value[i], i - 1))
                       ELSE Value(regressions.value[i], i - 1)])

\* operations.py: percent_change.  The slopes are those of the log-domain fits;
\* 'slopes' is the array of their values.
PercentChange(x, window, order, slopes) ==
    LET regressions == LocalRegression(x, window, TRUE, order)
    IN IF ~regressions.ok THEN regressions
       ELSE Return([i \in 1..Len(slopes) |->
                       [c \in 1..3 |-> ExpMinusOne(slopes[i][c])]])


\* array[indices] with an index array: a negative index counts from the end, and
\* an index outside -N..N-1 raises IndexError.
Take(array, indices) ==
    LET N == Len(array)
    IN IF \E j \in 1..Len(indices) : indices[j] < -N \/ indices[j] > N - 1
       THEN Raise("IndexError")
       ELSE Return([j \in 1..Len(indices) |->
                       IF indices[j] < 0 THEN array[N + indices[j] + 1]
                       ELSE array[indices[j] + 1]])

\* The recursion with the two bound curves taken the other way round.
RECURSIVE ForecastSwapped(_, _, _, _, _)
ForecastSwapped(growth, upper, lower, n, acc) ==
    IF n > Len(growth) THEN acc
    ELSE LET last == acc[Len(acc)]
         IN ForecastSwapped(growth, upper, lower, n + 1,
                            Append(acc, [cases |-> Times(growth[n], last.cases),
                                         upper |-> Times(lower[n], last.upper),
                                         lower |-> Times(upper[n], last.lower)]))

\* The recursion of lines 255-260 from step n on.
RECURSIVE Forecast(_, _, _, _, _)
Forecast(growth, upper, lower, n, acc) ==
    IF n > Len(growth) THEN acc
    ELSE LET last == acc[Len(acc)]
         IN Forecast(growth, upper, lower, n + 1,
                     Append(acc, [cases |-> Times(growth[n], last.cases),
                                  upper |-> Times(upper[n], last.upper),
                                  lower |-> Times(lower[n], last.lower)]))

\* predict, on a predictor with model m, configuration c and training indices ti.
\* evalpoly stacks one row per time, and np.vstack of no rows raises ValueError.
Predict(m, c, ti, current_count, num_days, alpha) ==
    IF m = None THEN Raise("ValueError")
    ELSE IF num_days <= 0 THEN Raise("ValueError")
    ELSE IF ti = <<>> THEN Raise("IndexError")
    ELSE LET ls == m[1]
             indices == [n \in 1..num_days |-> (n - 1) + c.analysis_window - 1]
             growth == [n \in 1..num_days |-> Value(ls, indices[n])]
             confidence == [n \in 1..num_days |-> PredictionFit(ls, indices[n], alpha)]
             upper_bound == [n \in 1..num_days |-> Plus(growth[n], confidence[n])]
             lower_bound == [n \in 1..num_days |-> Minus(growth[n], confidence[n])]
             rows == Forecast(growth, upper_bound, lower_bound, 1,
                              <<[cases |-> current_count, upper |-> current_count,
                                 lower |-> current_count]>>)
         IN Return([cases |-> [n \in 1..(num_days + 1) |-> rows[n].cases],
                    bounds |-> [n \in 1..(num_days + 1) |->
                                   <<rows[n].upper, rows[n].lower>>],
                    indices |-> [n \in 1..(num_days + 1) |-> (n - 1) + ti[Len(ti)]]])

\* growth_model
GrowthModel(m, c, days) ==
    IF m = None THEN Raise("RuntimeError")
    ELSE LET d == IF days <= 0 THEN c.analysis_window ELSE days
         IN Return([t \in 1..d |-> Value(m[1], t - 1)])

\* confidence_interval
ConfidenceInterval(m, c, days, alpha) ==
    IF m = None THEN Raise("RuntimeError")
    ELSE LET d == IF days <= 0 THEN c.analysis_window ELSE days
             g == GrowthModel(m, c, d).value
         IN Return([t \in 1..d |->
                       <<Plus(g[t], ConfidenceFit(m[1], t - 1, alpha)),
                         Minus(g[t], ConfidenceFit(m[1], t - 1, alpha))>>])

\* prediction_interval
PredictionInterval(m, c, days, alpha) ==
    IF m = None THEN Raise("RuntimeError")
    ELSE LET d == IF days <= 0 THEN c.analysis_window ELSE days
             g == GrowthModel(m, c, d).value
         IN Return([t \in 1..d |->
                       <<Plus(g[t], PredictionFit(m[1], t - 1, alpha)),
                         Minus(g[t], PredictionFit(m[1], t - 1, alpha))>>])

\* The predictor's fields as one record.
Fields(m, ti, vi, ts, vs) ==
    [model |-> m, training_indices |-> ti, validation_indices |-> vi,
     training_samples |-> ts, validation_samples |-> vs]

\* train, in the order of its lines.  The assignments to self take effect as they
\* are reached, so an exception leaves the fields assigned before it: 'fields' is
\* the predictor when the call ends and 'result' what the call returns or raises.

\* Lines 207-210: prediction - daily_cases, on arrays of reporting_lag + 1 and
\* len(daily_cases) entries, which broadcast only when the lengths are equal or
\* one of them is 1.
TrainResiduals(f, ls, prediction, daily_cases) ==
    IF ~prediction.ok THEN [result |-> Raise(prediction.error), fields |-> f]
    ELSE IF Len(prediction.value.cases) # Len(daily_cases) /\ Len(daily_cases) # 1
    THEN [result |-> Raise("ValueError"), fields |-> f]
    ELSE [result |-> Return([standard_error |-> <<"standard_error", ls>>,
                             validation_error |->
                                 <<"rms", prediction.value.cases, daily_cases>>]),
          fields |-> f]

\* Lines 204-205.  np.squeeze makes the daily change of a one-day series
\* 0-dimensional, and slicing it raises IndexError.
TrainPrediction(x, c, f, ls, daily_cases) ==
    IF Len(x) = 1 THEN [result |-> Raise("IndexError"), fields |-> f]
    ELSE TrainResiduals(f, ls,
                        Predict(f.model, c, f.training_indices, daily_cases[1],
                                c.reporting_lag, 95),
                        daily_cases)

\* Line 202.
TrainValidation(x, c, f, ls, validation) ==
    IF ~validation.ok THEN [result |-> Raise(validation.error), fields |-> f]
    ELSE TrainPrediction(x, c, [f EXCEPT !.validation_samples = Some(validation.value)],
                         ls,
                         SubSeq(DailyChange(x),
                                Len(x) - Min(Len(x), c.reporting_lag + 1) + 1, Len(x)))

\* Lines 199-201.
TrainModel(x, c, f, daily_growth, training, ls) ==
    IF ~ls.ok THEN [result |-> Raise(ls.error), fields |-> f]
    ELSE TrainValidation(x, c,
                         [f EXCEPT !.model = Some(ls.value),
                                   !.training_samples = Some(training)],
                         ls.value, Take(daily_growth, f.validation_indices))

\* Line 193.
TrainSamples(x, c, f, daily_growth, training) ==
    IF ~training.ok THEN [result |-> Raise(training.error), fields |-> f]
    ELSE TrainModel(x, c, f, daily_growth, training.value,
                    LeastSquares(Arange(0, c.analysis_window), training.value,
                                 c.model_order))

\* Line 192.
TrainGrowth(x, c, f, daily_growth) ==
    IF ~daily_growth.ok THEN [result |-> Raise(daily_growth.error), fields |-> f]
    ELSE TrainSamples(x, c, f, daily_growth.value,
                      Take(daily_growth.value, f.training_indices))

\* train whose training window ends on the last day of the series.
TrainNoLag(x, c, old) ==
    TrainGrowth(x, c,
                [old EXCEPT
                    !.training_indices = Arange(Len(x) - c.analysis_window, Len(x)),
                    !.validation_indices = Arange(Len(x) - c.reporting_lag, Len(x))],
                EstimateGrowth(x, c.filter_window))

\* Lines 186-190, on the series x, on a predictor with configuration c and
\* fields 'old'.
Train(x, c, old) ==
    TrainGrowth(x, c,
                [old EXCEPT
                    !.training_indices =
                        Arange(Len(x) - c.analysis_window - c.reporting_lag,
                               Len(x) - c.reporting_lag),
                    !.validation_indices = Arange(Len(x) - c.reporting_lag, Len(x))],
                EstimateGrowth(x, c.filter_window))

(***************************************************************************)
(* The state after construction of a predictor with no series in hand.     *)
(***************************************************************************)
DefaultCfg == [analysis_window |-> 14, reporting_lag |-> 3, model_order |-> 1,
               filter_window |-> 14]

Untrained ==
    /\ train_returned = FALSE
    /\ model = None
    /\ training_indices = <<>>
    /\ validation_indices = <<>>
    /\ training_samples = None
    /\ validation_samples = None

(***************************************************************************)
(* Spec: a predictor, the series in hand, and the calls made on them.      *)
(***************************************************************************)
Configs ==
    {PredictorCfg(a, l, k, -1) :
        a \in 2..MaxAnalysisWindow, l \in 0..MaxLag, k \in {1, 2}}

\* The series a caller can have in hand: one record per day, the cumulative
\* confirmed count staying at 0 or reaching 1 on the last day.
DailyData ==
    UNION {{[i \in 1..n |-> [date |-> i - 1,
                             confirmed |-> IF i > n - k THEN 1 ELSE 0]] :
               k \in {0, 1}} :
           n \in 1..MaxSeries}

\* TimeSeries(data) for each of them.
Built == {[data |-> d, result |-> TimeSeriesInit(d, 0)] : d \in DailyData}

Alphas == {95}

Init ==
    /\ \E b \in Built : /\ samples = b.result.value.samples
                         /\ start = Some(b.result.value.start)
    /\ cfg \in Configs
    /\ Untrained
    /\ call = Done("DailyCasesPredictor", cfg, Return(None))

TakeSeries ==
    /\ \E b \in Built :
          /\ samples' = b.result.value.samples
          /\ start' = Some(b.result.value.start)
          /\ call' = Done("TimeSeries", [data |-> b.data, min_value |-> 0], b.result)
    /\ UNCHANGED predictor

\* train that forgets the model it had before it looks at the series.
TrainCallClears ==
    LET old == Fields(model, training_indices, validation_indices,
                      training_samples, validation_samples)
        t == Train(samples, cfg, [old EXCEPT !.model = None])
    IN /\ model' = t.fields.model
       /\ training_indices' = t.fields.training_indices
       /\ validation_indices' = t.fields.validation_indices
       /\ training_samples' = t.fields.training_samples
       /\ validation_samples' = t.fields.validation_samples
       /\ train_returned' = (train_returned \/ t.result.ok)
       /\ call' = Done("train", [before |-> old, had_returned |-> train_returned],
                       t.result)
       /\ UNCHANGED <<samples, start, cfg>>

TrainCall ==
    LET old == Fields(model, training_indices, validation_indices,
                      training_samples, validation_samples)
        t == Train(samples, cfg, old)
    IN /\ model' = t.fields.model
       /\ training_indices' = t.fields.training_indices
       /\ validation_indices' = t.fields.validation_indices
       /\ training_samples' = t.fields.training_samples
       /\ validation_samples' = t.fields.validation_samples
       /\ train_returned' = (train_returned \/ t.result.ok)
       /\ call' = Done("train", [before |-> old, had_returned |-> train_returned],
                       t.result)
       /\ UNCHANGED <<samples, start, cfg>>

\* predict that keeps the indices it returns as the training indices.
PredictCallMovesWindow ==
    \E current_count \in {0, 1}, num_days \in 0..MaxDays, alpha \in Alphas :
        LET r == Predict(model, cfg, training_indices, current_count, num_days, alpha)
        IN /\ call' = Done("predict",
                           [current_count |-> current_count, num_days |-> num_days,
                            alpha |-> alpha, had_returned |-> train_returned,
                            repeated |-> /\ call.op = "predict"
                                         /\ call.args.current_count = current_count
                                         /\ call.args.num_days = num_days
                                         /\ call.args.alpha = alpha],
                           r)
           /\ training_indices' = IF r.ok THEN r.value.indices ELSE training_indices
           /\ UNCHANGED <<samples, start, train_returned, cfg, model, validation_indices,
                          training_samples, validation_samples>>

\* 'repeated' records that the call before this one was a predict with the same
\* arguments.
PredictCall ==
    /\ \E current_count \in {0, 1}, num_days \in 0..MaxDays, alpha \in Alphas :
          call' = Done("predict",
                       [current_count |-> current_count, num_days |-> num_days,
                        alpha |-> alpha, had_returned |-> train_returned,
                        repeated |-> /\ call.op = "predict"
                                     /\ call.args.current_count = current_count
                                     /\ call.args.num_days = num_days
                                     /\ call.args.alpha = alpha],
                       Predict(model, cfg, training_indices, current_count,
                               num_days, alpha))
    /\ UNCHANGED <<samples, start, predictor>>

GrowthModelCall ==
    /\ \E days \in 0..MaxDays :
          call' = Done("growth_model", [days |-> days], GrowthModel(model, cfg, days))
    /\ UNCHANGED <<samples, start, predictor>>

ConfidenceIntervalCall ==
    /\ \E days \in 0..MaxDays, alpha \in Alphas :
          call' = Done("confidence_interval", [days |-> days, alpha |-> alpha],
                       ConfidenceInterval(model, cfg, days, alpha))
    /\ UNCHANGED <<samples, start, predictor>>

PredictionIntervalCall ==
    /\ \E days \in 0..MaxDays, alpha \in Alphas :
          call' = Done("prediction_interval", [days |-> days, alpha |-> alpha],
                       PredictionInterval(model, cfg, days, alpha))
    /\ UNCHANGED <<samples, start, predictor>>

Next ==
    \/ TakeSeries
    \/ TrainCall
    \/ PredictCall
    \/ GrowthModelCall
    \/ ConfidenceIntervalCall
    \/ PredictionIntervalCall

Spec == Init /\ [][Next]_vars

\* C2: predict on a predictor on which train has never completed fails with the
\* model-not-trained error for every current_count, num_days and alpha, returns
\* no forecast, and leaves the predictor untrained.
C2_PredictBeforeTrainFails ==
    (call.op = "predict" /\ ~call.args.had_returned) =>
        /\ ~call.result.ok
        /\ call.result.error = "ValueError"
        /\ model = None

\* What a train that returned leaves in the predictor: the indices and the
\* regressor of the series it was given.
TrainedOn(x) ==
    LET N == Len(x)
        ti == Arange(N - cfg.analysis_window - cfg.reporting_lag,
                     N - cfg.reporting_lag)
        growth == EstimateGrowth(x, cfg.filter_window)
    IN /\ training_indices = ti
       /\ validation_indices = Arange(N - cfg.reporting_lag, N)
       /\ growth.ok
       /\ model = Some(LeastSquares(Arange(0, cfg.analysis_window),
                                    Take(growth.value, ti).value,
                                    cfg.model_order).value)

\* C3: the predictor starts untrained, only train makes it trained, the first
\* train that returns leaves it trained, no call of train, predict, growth_model,
\* confidence_interval or prediction_interval makes a trained predictor
\* untrained, and a train that returns leaves the model and the training and
\* validation indices of the series it was given.
C3_OneWayLifeCycle ==
    /\ model = None
    /\ [][/\ model # None => model' # None
          /\ (model = None /\ model' # None) => call'.op = "train"]_vars
    /\ []((call.op = "train" /\ call.result.ok) => TrainedOn(samples))

\* A train that returned on a predictor that held the model and the indices of
\* another, shorter series, both series long enough for their windows.
C3_Witness ==
    /\ call.op = "train"
    /\ call.result.ok
    /\ call.args.before.model # None
    /\ call.args.before.model # model
    /\ call.args.before.training_indices # training_indices
    /\ call.args.before.training_indices[1] >= 0
    /\ training_indices[1] >= 0
    /\ TrainedOn(samples)

\* C11: on a trained predictor and for num_days >= 1, predict returns cases with
\* cases[0] = current_count and cases[n+1] = growth[n] * cases[n], and two bound
\* columns that start at current_count and follow the same recursion with
\* growth[n] + width[n] and growth[n] - width[n].
C11_ForecastRecursion ==
    (call.op = "predict" /\ model # None /\ call.args.num_days >= 1) =>
        LET r == call.result
            a == call.args
            growth(n) == Value(model[1], cfg.analysis_window - 1 + n)
            width(n) == PredictionFit(model[1], cfg.analysis_window - 1 + n, a.alpha)
        IN /\ r.ok
           /\ Len(r.value.cases) = a.num_days + 1
           /\ Len(r.value.bounds) = a.num_days + 1
           /\ r.value.cases[1] = a.current_count
           /\ r.value.bounds[1] = <<a.current_count, a.current_count>>
           /\ \A n \in 0..(a.num_days - 1) :
                 /\ r.value.cases[n + 2] = Times(growth(n), r.value.cases[n + 1])
                 /\ r.value.bounds[n + 2][1] =
                        Times(Plus(growth(n), width(n)), r.value.bounds[n + 1][1])
                 /\ r.value.bounds[n + 2][2] =
                        Times(Minus(growth(n), width(n)), r.value.bounds[n + 1][2])

\* A forecast of two days or more was returned by a predictor whose train returned.
C11_Witness ==
    /\ call.op = "predict"
    /\ train_returned
    /\ call.args.num_days >= 2
    /\ call.result.ok
    /\ Len(call.result.value.cases) = call.args.num_days + 1

\* C12: on a trained predictor, a predict call with the arguments of the predict
\* call before it returns the same arrays, and a predict call changes none of the
\* model, the training indices, the validation indices and the stored samples.
C12_PredictIdempotent ==
    [][(call'.op = "predict" /\ model # None) =>
          /\ UNCHANGED <<model, training_indices, validation_indices,
                         training_samples, validation_samples>>
          /\ call'.args.repeated => call'.result = call.result]_vars

\* A forecast was returned by a predict call that repeated the call before it.
C12_Witness ==
    /\ call.op = "predict"
    /\ call.args.repeated
    /\ train_returned
    /\ call.result.ok
    /\ call.args.num_days >= 1

\* C13: after train on a series of N days the training window is the
\* analysis_window consecutive indices N - analysis_window - reporting_lag ..
\* N - reporting_lag - 1 and the validation window the reporting_lag consecutive
\* indices N - reporting_lag .. N - 1; the windows are disjoint and adjacent, and
\* the validation window ends on the last day of the series.
C13_Windows ==
    call.op = "train" =>
        LET N == Len(samples)
            aw == cfg.analysis_window
            lag == cfg.reporting_lag
            ti == training_indices
            vi == validation_indices
        IN /\ Len(ti) = aw
           /\ \A j \in 1..aw : ti[j] = N - aw - lag + (j - 1)
           /\ Len(vi) = lag
           /\ \A j \in 1..lag : vi[j] = N - lag + (j - 1)
           /\ Range(ti) \cap Range(vi) = {}
           /\ lag >= 1 => (vi[1] = ti[aw] + 1 /\ vi[lag] = N - 1)

\* A train returned on a series longer than the two windows together.
C13_Witness ==
    /\ call.op = "train"
    /\ call.result.ok
    /\ cfg.reporting_lag >= 1
    /\ Len(samples) > cfg.analysis_window + cfg.reporting_lag
    /\ training_indices[1] = Len(samples) - cfg.analysis_window - cfg.reporting_lag

\* C14: the residuals behind train's validation_error are taken over exactly the
\* samples of the validation window, the reporting_lag days N - reporting_lag ..
\* N - 1 of the series, and over no sample of the training window.  Stated for
\* the series that hold both windows.
C14_ResidualsOverValidationWindow ==
    (/\ call.op = "train" /\ call.result.ok
     /\ Len(samples) >= cfg.analysis_window + cfg.reporting_lag) =>
        LET change == DailyChange(samples)
            vi == validation_indices
            error == call.result.value.validation_error
        IN /\ Len(error[2]) = Len(vi)
           /\ error[3] = [j \in 1..Len(vi) |-> change[vi[j] + 1]]

(***************************************************************************)
(* SpecLS: the regressor's constructor applied to drawn arrays.            *)
(***************************************************************************)
LSArgs == {[times |-> t, values |-> v, order |-> k] :
              t \in SeqsOf(0..MaxTime, 0, MaxSamples),
              v \in SeqsOf(0..MaxValue, 0, MaxSamples),
              k \in 0..MaxOrder}

InitLS ==
    /\ samples = None
    /\ start = None
    /\ cfg = DefaultCfg
    /\ Untrained
    /\ \E a \in LSArgs : call = Pending("LeastSquares", a)

LeastSquaresInit ==
    /\ call.op = "LeastSquares"
    /\ call.status = "pending"
    /\ call' = Done("LeastSquares", call.args,
                    LeastSquares(call.args.times, call.args.values, call.args.order))
    /\ UNCHANGED <<samples, start, predictor>>

NextLS == LeastSquaresInit

SpecLS == InitLS /\ [][NextLS]_vars

\* C1: constructing a LeastSquares with times of length M, values of length N and
\* order k raises, and yields no regressor, whenever M # N or N <= k + 1.
C1_RejectsBadInput ==
    (/\ call.op = "LeastSquares"
     /\ call.status = "done"
     /\ \/ Len(call.args.times) # Len(call.args.values)
        \/ Len(call.args.values) <= call.args.order + 1)
    => (/\ ~call.result.ok
        /\ call.result.error = "ValueError"
        /\ "value" \notin DOMAIN call.result)

\* A constructor call with exactly order + 1 samples of equal-length arrays was
\* made and was rejected.
C1_Witness ==
    /\ call.op = "LeastSquares"
    /\ call.status = "done"
    /\ Len(call.args.times) = Len(call.args.values)
    /\ Len(call.args.values) = call.args.order + 1
    /\ ~call.result.ok

(***************************************************************************)
(* SpecTS: a TimeSeries built from a drawn list of dated records.          *)
(***************************************************************************)
Datum == [date : 0..MaxDay, confirmed : 0..MaxCount]

DataLists == SeqsOf(Datum, 0, MaxRecords)

InitTS ==
    /\ samples = None
    /\ start = None
    /\ cfg = DefaultCfg
    /\ Untrained
    /\ \E d \in DataLists, m \in 0..MaxMinValue :
          call = Pending("TimeSeries", [data |-> d, min_value |-> m])

NewTimeSeries ==
    /\ call.op = "TimeSeries"
    /\ call.status = "pending"
    /\ LET r == TimeSeriesInit(call.args.data, call.args.min_value)
       IN /\ call' = Done("TimeSeries", call.args, r)
          /\ samples' = IF r.ok THEN r.value.samples ELSE samples
          /\ start' = IF r.ok THEN Some(r.value.start) ELSE start
    /\ UNCHANGED predictor

\* daily_change that differences the sample array in place.
DailyChangeInPlace ==
    /\ samples # None
    /\ call' = Done("daily_change", <<>>, Return(Squeeze(DailyChange(samples))))
    /\ samples' = DailyChange(samples)
    /\ UNCHANGED <<start, predictor>>

\* The daily_change property read on the series in hand.
DailyChangeCall ==
    /\ samples # None
    /\ call' = Done("daily_change", <<>>, Return(Squeeze(DailyChange(samples))))
    /\ UNCHANGED <<samples, start, predictor>>

NextTS == NewTimeSeries \/ DailyChangeCall

SpecTS == InitTS /\ [][NextTS]_vars

\* The records of the input list that pass the threshold.
Kept(data, min_value) ==
    {i \in 1..Len(data) : data[i].confirmed >= min_value}

RECURSIVE SumOver(_, _)
SumOver(data, I) ==
    IF I = {} THEN 0
    ELSE LET i == CHOOSE x \in I : TRUE
         IN data[i].confirmed + SumOver(data, I \ {i})

\* The total reported on calendar day 'day' by the records that pass the threshold.
ReportedOn(data, min_value, day) ==
    SumOver(data, {i \in Kept(data, min_value) : data[i].date = day})

HasRecord(data, min_value, day) ==
    \E i \in Kept(data, min_value) : data[i].date = day

\* C4: gap-fill is last-observation-carried-forward.  In the built series a day
\* with a record holds that day's (summed) record value, and a day without one
\* holds the value of the most recent earlier day that has a record.
C4_CarryForward ==
    (call.op = "TimeSeries" /\ call.status = "done" /\ call.result.ok)
    => LET data == call.args.data
           mv == call.args.min_value
           first == call.result.value.start
           s == call.result.value.samples
       IN /\ samples = s
          /\ \A k \in 0..(Len(s) - 1) :
                IF HasRecord(data, mv, first + k)
                THEN s[k + 1] = ReportedOn(data, mv, first + k)
                ELSE \E p \in 0..(k - 1) :
                        /\ HasRecord(data, mv, first + p)
                        /\ \A q \in (p + 1)..k : ~HasRecord(data, mv, first + q)
                        /\ s[k + 1] = ReportedOn(data, mv, first + p)

\* The example of the specification, scaled: records on days 0, 1 and 4 with
\* values 0, 1, 0 give 1 on days 2 and 3.
C4_Witness ==
    /\ call.op = "TimeSeries" /\ call.status = "done" /\ call.result.ok
    /\ {call.args.data[i].date : i \in 1..Len(call.args.data)} = {0, 1, 4}
    /\ samples = <<0, 1, 1, 1, 0>>

(***************************************************************************)
(* SpecOps: local_regression and growth_factor called on a drawn series.   *)
(***************************************************************************)
OpsSeries == {x \in SeqsOf({0, 1}, 1, MaxRows) :
                 \A i \in 1..(Len(x) - 1) : x[i] <= x[i + 1]}

\* The rows (slope, slope + c, slope - c) with entries in -1..1.  The half-width c
\* is the same on both sides because derivative and evalpoly are linear in the
\* weights; entries of 0 and 1 are the non-negative values LogUnits is exact on.
SlopeRows == {r \in {<<b, b + c, b - c>> : b \in -1..1, c \in 0..1} :
                 \A j \in 1..3 : r[j] \in -1..1}

\* The arrays estimate_slope can return for N days: the derivative of an order-0
\* polynomial is the empty polynomial, which evaluates to 0.
SlopeArrays(N, order) ==
    IF order = 0 THEN {[i \in 1..N |-> <<0, 0, 0>>]} ELSE [1..N -> SlopeRows]

RegressionArgs ==
    {[window |-> w, log_domain |-> l, order |-> k] :
        w \in 1..MaxWindow, l \in BOOLEAN, k \in 0..MaxOrder}

GrowthArgs(x) ==
    UNION {{[window |-> w, order |-> k, slopes |-> sl] :
               sl \in IF EstimateSlope(x, w, k, <<>>).ok
                      THEN SlopeArrays(Len(x), k) ELSE {<<>>}} :
           w \in 1..MaxWindow, k \in 0..MaxOrder}

InitOps ==
    /\ samples \in OpsSeries
    /\ start = Some(0)
    /\ cfg = DefaultCfg
    /\ Untrained
    /\ \/ \E a \in RegressionArgs : call = Pending("local_regression", a)
       \/ \E a \in GrowthArgs(samples) : call = Pending("growth_factor", a)

LocalRegressionCall ==
    /\ call.op = "local_regression"
    /\ call.status = "pending"
    /\ call' = Done("local_regression", call.args,
                    LocalRegression(samples, call.args.window, call.args.log_domain,
                                    call.args.order))
    /\ UNCHANGED <<samples, start, predictor>>

GrowthFactorCall ==
    /\ call.op = "growth_factor"
    /\ call.status = "pending"
    /\ call' = Done("growth_factor", call.args,
                    GrowthFactor(samples, call.args.window, call.args.order,
                                 call.args.slopes))
    /\ UNCHANGED <<samples, start, predictor>>

NextOps == LocalRegressionCall \/ GrowthFactorCall

SpecOps == InitOps /\ [][NextOps]_vars

\* C5 (as claimed): for a series of at least 'window' days, window >= 3 and order
\* 1, local_regression returns one regressor per day of the series.
C5_OneRegressorPerIndex ==
    (/\ call.op = "local_regression" /\ call.status = "done"
     /\ call.args.window >= 3
     /\ call.args.order = 1
     /\ Len(samples) >= call.args.window)
    => (call.result.ok /\ Len(call.result.value) = Len(samples))

\* C6: local_regression and growth_factor called with a window below 3 raise
\* before any regressor or output row is produced.
C6_SmallWindowRejected ==
    (/\ call.op \in {"local_regression", "growth_factor"}
     /\ call.status = "done"
     /\ call.args.window < 3)
    => (/\ ~call.result.ok
        /\ call.result.error = "ValueError"
        /\ call.result.produced = 0)

\* growth_factor was called with a window of two days and raised.
C6_Witness ==
    /\ call.op = "growth_factor" /\ call.status = "done"
    /\ call.args.window = 2
    /\ ~call.result.ok

\* The entries of column c of the slope array in the clipped window of day i
\* (1-based), as a set of positions, and the tests the claims make on them.
WindowDays(N, window, i) ==
    {j \in 1..N : (i - 1) - (window \div 2) <= j - 1 /\ j - 1 <= (i - 1) + (window \div 2)}

GrowthCallReturned ==
    call.op = "growth_factor" /\ call.status = "done" /\ call.result.ok

\* C7: a day whose clipped window holds only zeros gets growth factor 0, in each
\* of the three growth-factor columns computed, and in the returned estimate.
C7_AllZeroWindowIsZero ==
    GrowthCallReturned =>
        LET sl == call.args.slopes
            W(i) == WindowDays(Len(sl), call.args.window, i)
        IN \A i \in 1..Len(sl) : \A c \in 1..3 :
              (\A j \in W(i) : sl[j][c] = 0)
              => /\ call.result.value.columns[i][c] = Zero
                 /\ (c = 1 => call.result.value.output[i][1] = Zero)

\* An order-1 call returned with a day whose window is all zero in the best-fit
\* column while the series of slopes is not zero everywhere.
C7_Witness ==
    /\ GrowthCallReturned
    /\ call.args.order = 1
    /\ LET sl == call.args.slopes
       IN /\ \E i \in 1..Len(sl) :
                \A j \in WindowDays(Len(sl), call.args.window, i) : sl[j][1] = 0
          /\ \E j \in 1..Len(sl) : sl[j][1] # 0

\* C8 (as claimed): a day whose clipped window holds only negative values gets NaN.
C8_AllNegativeWindowIsNaN ==
    GrowthCallReturned =>
        LET sl == call.args.slopes
            W(i) == WindowDays(Len(sl), call.args.window, i)
        IN \A i \in 1..Len(sl) : \A c \in 1..3 :
              (\A j \in W(i) : sl[j][c] < 0)
              => call.result.value.columns[i][c] = NaN

\* The non-negative entries of a window and the fit over them, from the claim's
\* words: the days kept, in order, with the logarithms of their values.
RECURSIVE DaysInOrder(_)
DaysInOrder(S) ==
    IF S = {} THEN <<>>
    ELSE LET m == CHOOSE x \in S : \A y \in S : x <= y
         IN <<m>> \o DaysInOrder(S \ {m})

FitOver(sl, c, days, order) ==
    LET d == DaysInOrder(days)
    IN ExpSlope([times |-> [j \in 1..Len(d) |-> d[j] - 1],
                 values |-> [j \in 1..Len(d) |-> LogEps(sl[d[j]][c])],
                 order |-> order,
                 dof |-> Len(d) - (order + 1)])

\* C9 (as claimed): with requested order k, for a window that is neither all-zero
\* nor all-negative the day is NaN exactly when fewer than k + 2 non-negative
\* values remain, and is otherwise the order-k fit of the remaining values.
C9_RequestedOrderDecides ==
    GrowthCallReturned =>
        LET sl == call.args.slopes
            k == call.args.order
            W(i) == WindowDays(Len(sl), call.args.window, i)
        IN \A i \in 1..Len(sl) : \A c \in 1..3 :
              LET kept == {j \in W(i) : sl[j][c] >= 0}
                  g == call.result.value.columns[i][c]
              IN (/\ ~(\A j \in W(i) : sl[j][c] = 0)
                  /\ ~(\A j \in W(i) : sl[j][c] < 0))
                 => IF Cardinality(kept) < k + 2 THEN g = NaN
                    ELSE g = FitOver(sl, c, kept, k)

\* C9 (amended): for a window in which not every value is below 0.5 the negative
\* entries are dropped, the day is NaN exactly when fewer than 3 non-negative
\* values remain, and is otherwise the order-1 fit of the remaining values,
\* whatever order was requested.
C9_ThreePointsLinearFit ==
    GrowthCallReturned =>
        LET sl == call.args.slopes
            W(i) == WindowDays(Len(sl), call.args.window, i)
        IN \A i \in 1..Len(sl) : \A c \in 1..3 :
              LET kept == {j \in W(i) : sl[j][c] >= 0}
                  g == call.result.value.columns[i][c]
              IN (\E j \in W(i) : 2 * sl[j][c] >= 1)
                 => IF Cardinality(kept) < 3 THEN g = NaN
                    ELSE g = FitOver(sl, c, kept, 1)

\* A call with requested order 2 returned with a day fitted over exactly three
\* non-negative values after a negative one was dropped.
C9_Witness ==
    /\ GrowthCallReturned
    /\ call.args.order = 2
    /\ LET sl == call.args.slopes
       IN \E i \in 1..Len(sl) : \E c \in 1..3 :
             LET W == WindowDays(Len(sl), call.args.window, i)
             IN /\ Cardinality({j \in W : sl[j][c] >= 0}) = 3
                /\ \E j \in W : sl[j][c] < 0
                /\ call.result.value.columns[i][c].kind = "exp"

\* C10 (as claimed): in every returned row whose two bounds are defined, the upper
\* bound (column 1) is at least the lower bound (column 2).
C10_UpperAtLeastLower ==
    GrowthCallReturned =>
        \A i \in 1..Len(call.result.value.output) :
            LET row == call.result.value.output[i]
            IN (~IsNaN(row[2]) /\ ~IsNaN(row[3])) => ~Less(row[2], row[3])

\* C16 (as claimed): daily_change has the length of the series, its element 0 is
\* 0, and its element i >= 1 is series[i] - series[i-1].
C16_DailyChange ==
    call.op = "daily_change" =>
        LET change == call.result.value
        IN /\ change.shape = <<Len(samples)>>
           /\ change.entries[1] = 0
           /\ \A i \in 2..Len(samples) :
                 change.entries[i] = samples[i] - samples[i - 1]

(***************************************************************************)
(* SpecSeries: one TimeSeries, the operations that read it, and a predictor *)
(* trained on it.                                                           *)
(***************************************************************************)
SeriesWindows == {2, 5}

\* Slope arrays of N equal rows.
EqualSlopes(N) == {[i \in 1..N |-> r] : r \in SlopeRows}

GetItemCall ==
    /\ \E ind \in {-1, 0, Len(samples)} :
          call' = Done("getitem", [ind |-> ind], GetItem(samples, ind))
    /\ UNCHANGED <<samples, start, predictor>>

LocalRegressionOnSeries ==
    /\ \E w \in SeriesWindows, l \in BOOLEAN :
          call' = Done("local_regression",
                       [window |-> w, log_domain |-> l, order |-> 1],
                       LocalRegression(samples, w, l, 1))
    /\ UNCHANGED <<samples, start, predictor>>

SmoothCall ==
    /\ \E w \in SeriesWindows, l \in BOOLEAN :
          call' = Done("smooth", [window |-> w, log_domain |-> l, order |-> 1],
                       Smooth(samples, w, l, 1))
    /\ UNCHANGED <<samples, start, predictor>>

EstimateSlopeCall ==
    /\ \E w \in SeriesWindows, sl \in EqualSlopes(Len(samples)) :
          call' = Done("estimate_slope", [window |-> w, order |-> 1, slopes |-> sl],
                       EstimateSlope(samples, w, 1, sl))
    /\ UNCHANGED <<samples, start, predictor>>

PercentChangeCall ==
    /\ \E w \in SeriesWindows, sl \in EqualSlopes(Len(samples)) :
          call' = Done("percent_change", [window |-> w, order |-> 1, slopes |-> sl],
                       PercentChange(samples, w, 1, sl))
    /\ UNCHANGED <<samples, start, predictor>>

GrowthFactorOnSeries ==
    /\ \E w \in SeriesWindows, sl \in EqualSlopes(Len(samples)) :
          call' = Done("growth_factor", [window |-> w, order |-> 1, slopes |-> sl],
                       GrowthFactor(samples, w, 1, sl))
    /\ UNCHANGED <<samples, start, predictor>>

NextSeries ==
    \/ DailyChangeCall
    \/ GetItemCall
    \/ LocalRegressionOnSeries
    \/ SmoothCall
    \/ EstimateSlopeCall
    \/ PercentChangeCall
    \/ GrowthFactorOnSeries
    \/ TrainCall
    \/ PredictCall

SpecSeries == Init /\ [][NextSeries]_vars

\* C15: a TimeSeries is immutable after construction: no smooth, estimate_slope,
\* percent_change, growth_factor, local_regression, daily_change, indexing, train
\* or predict call changes its sample array, its length or its dates.
C15_SeriesImmutable ==
    [][/\ samples' = samples
       /\ Len(samples') = Len(samples)
       /\ start' = start
       /\ Dates(start'[1], Len(samples')) = Dates(start[1], Len(samples))]_vars

\* A log-domain smoothing returned on a series with a non-zero sample that a
\* predictor has been trained on.
C15_Witness ==
    /\ call.op = "smooth"
    /\ call.args.log_domain
    /\ call.result.ok
    /\ train_returned
    /\ \E i \in 1..Len(samples) : samples[i] # 0


(***************************************************************************)
(* least_squares.py in exact arithmetic.  A real number the fit produces   *)
(* from integer samples is a rational <<n, d>> with d > 0 in lowest terms. *)
(***************************************************************************)
MaxFitTime == 3      \* latest sample time of a fitted regressor (times are 0..MaxFitTime)
MaxCoeff == 1        \* largest polynomial coefficient sampled from (they are 0..MaxCoeff)

Abs(n) == IF n < 0 THEN -n ELSE n

RECURSIVE Gcd(_, _)
Gcd(a, b) == IF b = 0 THEN a ELSE Gcd(b, a % b)

Rat(n, d) ==
    LET g == Gcd(Abs(n), Abs(d))
        s == IF d < 0 THEN -1 ELSE 1
    IN <<(s * n) \div g, (s * d) \div g>>

RInt(n) == <<n, 1>>
\* Sums over the least common denominator and products of cross-reduced factors,
\* so that no intermediate integer is larger than the result requires.
RAdd(p, q) ==
    LET g == Gcd(p[2], q[2])
    IN Rat(p[1] * (q[2] \div g) + q[1] * (p[2] \div g), (p[2] \div g) * q[2])
RSub(p, q) == RAdd(p, <<-q[1], q[2]>>)
RMul(p, q) ==
    LET g == Gcd(Abs(p[1]), q[2])
        h == Gcd(Abs(q[1]), p[2])
    IN <<(p[1] \div g) * (q[1] \div h), (p[2] \div h) * (q[2] \div g)>>

\* s[1] + ... + s[n], of integers and of rationals.
RECURSIVE SumTo(_, _)
SumTo(s, n) == IF n = 0 THEN 0 ELSE SumTo(s, n - 1) + s[n]

RECURSIVE RSumTo(_, _)
RSumTo(s, n) == IF n = 0 THEN RInt(0) ELSE RAdd(RSumTo(s, n - 1), s[n])

\* x**j for an integer x and j >= 0; numpy has 0**0 = 1.
RECURSIVE Pow(_, _)
Pow(x, j) == IF j = 0 THEN 1 ELSE x * Pow(x, j - 1)

\* np.power(t, j) for a rational t.
RECURSIVE RPow(_, _)
RPow(t, j) == IF j = 0 THEN RInt(1) ELSE RMul(t, RPow(t, j - 1))

\* evalpoly(b, t) at one time t: sum of b_i t^i, lowest order first.
EvalPoly(b, t) == RSumTo([i \in 1..Len(b) |-> RMul(b[i], RPow(t, i - 1))], Len(b))

\* The coefficients shifted down without the factor i.
DerivativeUnscaled(b) == [i \in 1..(Len(b) - 1) |-> b[i + 1]]

\* derivative(b): b[1:, 0] * np.arange(1, b.shape[0]).
Derivative(b) == [i \in 1..(Len(b) - 1) |-> RMul(b[i + 1], RInt(i))]

\* The matrix of a K x K system without row r and column c.
Minor(A, r, c) ==
    [i \in 1..(Len(A) - 1) |->
        [j \in 1..(Len(A) - 1) |->
            A[IF i < r THEN i ELSE i + 1][IF j < c THEN j ELSE j + 1]]]

\* Determinant of an integer matrix, expanded along its first row.
RECURSIVE Det(_)
Det(A) ==
    IF Len(A) = 0 THEN 1
    ELSE SumTo([j \in 1..Len(A) |->
                   (IF j % 2 = 1 THEN 1 ELSE -1) * A[1][j] * Det(Minor(A, 1, j))], Len(A))

\* __init__, lines 148-151: X[:, j] = times**j for j = 0..K-1.
Design(times, K) == [i \in 1..Len(times) |-> [j \in 1..K |-> Pow(times[i], j - 1)]]

\* X.transpose() @ X and X.transpose() @ y.
Gram(X, K) ==
    [a \in 1..K |-> [b \in 1..K |-> SumTo([i \in 1..Len(X) |-> X[i][a] * X[i][b]], Len(X))]]
Moment(X, y, K) == [a \in 1..K |-> SumTo([i \in 1..Len(X) |-> X[i][a] * y[i]], Len(X))]

\* __init__, line 154: pinv(X) @ y.  X has full column rank (the constructor
\* otherwise raises at line 159), so this is the solution of the normal equations
\* (X'X) w = X'y, here by Cramer's rule.
Weights(ls) ==
    LET K == ls.order + 1
        X == Design(ls.times, K)
        A == Gram(X, K)
        r == Moment(X, ls.values, K)
        d == Det(A)
    IN [j \in 1..K |->
           Rat(Det([a \in 1..K |-> [b \in 1..K |-> IF b = j THEN r[a] ELSE A[a][b]]]), d)]

\* __init__, lines 157-158: ssr = ((y - X @ weights)**2).sum().
Ssr(ls, w) ==
    LET e == [i \in 1..Len(ls.times) |->
                 RSub(RInt(ls.values[i]), EvalPoly(w, RInt(ls.times[i])))]
    IN RSumTo([i \in 1..Len(ls.times) |-> RMul(e[i], e[i])], Len(ls.times))

\* __init__, lines 159-164: variances = diag(inv(X'X)) * ssr / (N - K).
Variances(ls, w) ==
    LET K == ls.order + 1
        A == Gram(Design(ls.times, K), K)
        noise == RMul(Ssr(ls, w), Rat(1, ls.dof))
    IN [j \in 1..K |-> RMul(Rat(Det(Minor(A, j, j)), Det(A)), noise)]

\* scipy.stats.t.ppf((1 + alpha)/2, dof): for a level 0 < alpha < 1 and dof >= 1 a
\* finite positive number, kept as a term.
TPpf(alpha, dof) == <<"t.ppf", alpha, dof>>

\* c * np.sqrt(v) for a finite c > 0 and a rational v >= 0.
TimesSqrt(c, v) == IF v = RInt(0) THEN RInt(0) ELSE <<"mul", c, <<"sqrt", v>>>>

\* __init__, line 162: noise = ssr / (N - K).
Noise(ls, w) == RMul(Ssr(ls, w), Rat(1, ls.dof))

\* __init__, lines 159 and 163: covar = inv(X'X) * noise, the inverse by cofactors.
Covar(ls, w) ==
    LET K == ls.order + 1
        A == Gram(Design(ls.times, K), K)
        d == Det(A)
        noise == Noise(ls, w)
    IN [a \in 1..K |-> [b \in 1..K |->
           RMul(Rat((IF (a + b) % 2 = 0 THEN 1 ELSE -1) * Det(Minor(A, b, a)), d), noise)]]

\* The regressor with the attributes __init__ computes and keeps (lines 154-165).
\* Concatenating with <<>> makes TLC evaluate the weights once, as a tuple.
Fitted(ls) ==
    LET w == Weights(ls) \o <<>>
    IN [times |-> ls.times, values |-> ls.values, order |-> ls.order, dof |-> ls.dof,
        weights |-> w, variances |-> Variances(ls, w),
        noise |-> Noise(ls, w), covar |-> Covar(ls, w)]

\* confidence(alpha), lines 200-202.
Confidence(ls, alpha) ==
    [j \in 1..Len(ls.variances) |-> TimesSqrt(TPpf(alpha, ls.dof), ls.variances[j])]

\* diag((tn @ covar) @ tn.T) for one time t, tn = (1, t, ..., t^(K-1)).
RegrVar(ls, t) ==
    LET K == ls.order + 1
    IN RSumTo([a \in 1..K |->
                  RSumTo([b \in 1..K |->
                             RMul(RMul(RPow(t, a - 1), ls.covar[a][b]), RPow(t, b - 1))], K)],
              K)

\* confidence_fit(time, alpha), lines 233-238, at one time.
ConfidenceFitAt(ls, t, alpha) == TimesSqrt(TPpf(alpha, ls.dof), RegrVar(ls, t))

\* The prediction band without the residual noise.
PredictionFitNoNoise(ls, t, alpha) == TimesSqrt(TPpf(alpha, ls.dof), RegrVar(ls, t))

\* prediction_fit(time, alpha), lines 274-282, at one time: the diagonal of
\* noise * identity + regr_var is noise + regr_var.
PredictionFitAt(ls, t, alpha) ==
    TimesSqrt(TPpf(alpha, ls.dof), RAdd(ls.noise, RegrVar(ls, t)))

\* The polynomial read one time step late.
ValueAtNext(ls, t) == EvalPoly(ls.weights, RAdd(t, RInt(1)))

\* value(time), line 299, and slope(time), lines 328-329, at one time.
ValueAt(ls, t) == EvalPoly(ls.weights, t)
SlopeAt(ls, t) == EvalPoly(Derivative(ls.weights), t)


(***************************************************************************)
(* SpecFit: a regressor is fitted to samples of a polynomial, exact or     *)
(* with one disturbed sample, and then read.  'model' holds the regressor. *)
(***************************************************************************)
FitOrders == {1, 2}

\* Coefficient vectors b_0..b_k, lowest order first.
Polys(k) == [1..(k + 1) -> 0..MaxCoeff]

AsRationals(b) == [i \in 1..Len(b) |-> RInt(b[i])]

\* The polynomial b at integer times.
Sampled(b, times) ==
    [i \in 1..Len(times) |-> SumTo([j \in 1..Len(b) |-> b[j] * Pow(times[i], j - 1)], Len(b))]

\* Strictly increasing sequences of n times out of lo..MaxFitTime.
RECURSIVE Increasing(_, _)
Increasing(lo, n) ==
    IF n = 0 THEN {<<>>}
    ELSE UNION {{<<t>> \o rest : rest \in Increasing(t + 1, n - 1)} : t \in lo..MaxFitTime}

\* Nothing added to the samples, or one added to the first sample.
Disturbances(N) == {[i \in 1..N |-> 0], [i \in 1..N |-> IF i = 1 THEN 1 ELSE 0]}

FitArgs ==
    UNION {UNION {{[times |-> t,
                    values |-> [i \in 1..Len(t) |-> Sampled(b, t)[i] + e[i]],
                    order |-> k] :
                      b \in Polys(k), e \in Disturbances(Len(t))} :
                  t \in UNION {Increasing(0, n) : n \in (k + 2)..(MaxFitTime + 1)}} :
           k \in FitOrders}

\* Times a fitted regressor is read at: a sample time, between two samples, and
\* beyond the last sample.
ReadTimes == {RInt(0), Rat(1, 2), RInt(MaxFitTime + 1)}

\* Confidence levels in percent.
ConfidenceLevels == {50, 95}

InitFit ==
    /\ samples = None
    /\ start = None
    /\ cfg = DefaultCfg
    /\ Untrained
    /\ \/ \E a \in FitArgs : call = Pending("LeastSquares", a)
       \/ \E k \in FitOrders : \E b \in Polys(k) :
             call = Pending("derivative", [b |-> AsRationals(b)])

FitInit ==
    /\ call.op = "LeastSquares"
    /\ call.status = "pending"
    /\ LET r == LeastSquares(call.args.times, call.args.values, call.args.order)
       IN /\ call' = Done("LeastSquares", call.args, r)
          /\ model' = IF r.ok THEN Some(Fitted(r.value)) ELSE None
    /\ UNCHANGED <<samples, start, train_returned, cfg, training_indices,
                   validation_indices, training_samples, validation_samples>>

WeightsCall ==
    /\ model # None
    /\ call' = Done("weights", <<>>, Return(model[1].weights))
    /\ UNCHANGED <<samples, start, predictor>>

ValueCall ==
    /\ model # None
    /\ \E t \in ReadTimes :
          call' = Done("value", [time |-> t], Return(ValueAt(model[1], t)))
    /\ UNCHANGED <<samples, start, predictor>>

SlopeCall ==
    /\ model # None
    /\ \E t \in ReadTimes :
          call' = Done("slope", [time |-> t], Return(SlopeAt(model[1], t)))
    /\ UNCHANGED <<samples, start, predictor>>

ConfidenceCall ==
    /\ model # None
    /\ \E alpha \in ConfidenceLevels :
          call' = Done("confidence", [alpha |-> alpha],
                       Return(Confidence(model[1], alpha)))
    /\ UNCHANGED <<samples, start, predictor>>

ConfidenceFitCall ==
    /\ model # None
    /\ \E t \in ReadTimes : \E alpha \in ConfidenceLevels :
          call' = Done("confidence_fit", [time |-> t, alpha |-> alpha],
                       Return(ConfidenceFitAt(model[1], t, alpha)))
    /\ UNCHANGED <<samples, start, predictor>>

PredictionFitCall ==
    /\ model # None
    /\ \E t \in ReadTimes : \E alpha \in ConfidenceLevels :
          call' = Done("prediction_fit", [time |-> t, alpha |-> alpha],
                       Return(PredictionFitAt(model[1], t, alpha)))
    /\ UNCHANGED <<samples, start, predictor>>

DerivativeCall ==
    /\ call.op = "derivative"
    /\ call.status = "pending"
    /\ call' = Done("derivative", call.args, Return(Derivative(call.args.b)))
    /\ UNCHANGED <<samples, start, predictor>>

NextFit ==
    \/ FitInit
    \/ WeightsCall
    \/ ValueCall
    \/ SlopeCall
    \/ ConfidenceCall
    \/ ConfidenceFitCall
    \/ PredictionFitCall
    \/ DerivativeCall

SpecFit == InitFit /\ [][NextFit]_vars

\* The regressor being read was fitted to exact samples of the polynomial b at
\* more than k + 1 distinct times.
FittedTo(b) ==
    /\ model # None
    /\ Len(b) = model[1].order + 1
    /\ Cardinality(Range(model[1].times)) = Len(model[1].times)
    /\ Len(model[1].times) > model[1].order + 1
    /\ model[1].values = Sampled(b, model[1].times)

\* C17: for values sampled without noise from a polynomial of degree k with
\* coefficients b at more than k + 1 distinct integer times, the weights of the
\* fitted order-k regressor equal b (lowest order first), value(t) is the
\* polynomial at t, and confidence(alpha) is zero for every weight.
C17_ExactFit ==
    \A k \in FitOrders : \A b \in Polys(k) :
        (call.status = "done" /\ FittedTo(b)) =>
            /\ call.op = "weights" => call.result.value = AsRationals(b)
            /\ call.op = "value" =>
                  call.result.value = EvalPoly(AsRationals(b), call.args.time)
            /\ call.op = "confidence" =>
                  call.result.value = [j \in 1..(k + 1) |-> RInt(0)]

\* The weights of a regressor fitted to exact samples of a quadratic with three
\* different non-zero coefficients were read.
C17_Witness ==
    /\ call.op = "weights"
    /\ call.status = "done"
    /\ model # None
    /\ model[1].order = 2
    /\ \E b \in Polys(2) :
          /\ FittedTo(b)
          /\ b[1] # b[3]
          /\ b[3] # 0
          /\ call.result.value = AsRationals(b)


\* C18: derivative(b) of b_0..b_k (lowest order first) is the length-k vector whose
\* entry i - 1 is i * b_i for 1 <= i <= k, and slope(t) of a fitted regressor is
\* the polynomial with those coefficients at t, the exact derivative of value(t)
\* (for a polynomial of degree at most two the derivative at t is the central
\* difference (value(t + 1) - value(t - 1)) / 2).
C18_Derivative ==
    /\ (call.op = "derivative" /\ call.status = "done") =>
          LET b == call.args.b
              db == call.result.value
          IN /\ Len(db) = Len(b) - 1
             /\ \A i \in 1..(Len(b) - 1) : db[i] = RMul(RInt(i), b[i + 1])
    /\ (call.op = "slope" /\ call.status = "done" /\ model # None) =>
          LET w == model[1].weights
              k == model[1].order
              t == call.args.time
          IN /\ call.result.value =
                   RSumTo([i \in 1..k |-> RMul(RMul(RInt(i), w[i + 1]), RPow(t, i - 1))], k)
             /\ call.result.value =
                   RMul(Rat(1, 2), RSub(ValueAt(model[1], RAdd(t, RInt(1))),
                                        ValueAt(model[1], RSub(t, RInt(1)))))

\* The slope of a fitted quadratic with a non-zero leading weight was read between
\* two sample times.
C18_Witness ==
    /\ call.op = "slope"
    /\ call.status = "done"
    /\ call.args.time = Rat(1, 2)
    /\ model # None
    /\ model[1].order = 2
    /\ model[1].weights[3] # RInt(0)
    /\ call.result.value =
          RAdd(model[1].weights[2], RMul(RMul(RInt(2), model[1].weights[3]), Rat(1, 2)))


(***************************************************************************)
(* _types.py: whole Cases and CaseTesting records and their addition.      *)
(***************************************************************************)

\* The region kept only when the left operand's region is looked at.
CasesAddLeftRegion(self, other) ==
    IF other.kind # self.kind THEN Raise("TypeError")
    ELSE IF self.date # other.date THEN Raise("ValueError")
    ELSE Return([kind |-> "Cases",
                 date |-> self.date,
                 province |-> self.province,
                 country |-> self.country,
                 confirmed |-> self.confirmed + other.confirmed,
                 deceased |-> self.deceased + other.deceased,
                 resolved |-> IF self.resolved >= 0 /\ other.resolved >= 0
                              THEN self.resolved + other.resolved
                              ELSE self.resolved])

\* Cases.__add__ (lines 42-66).
CasesAdd(self, other) ==
    IF other.kind # self.kind THEN Raise("TypeError")
    ELSE IF self.date # other.date THEN Raise("ValueError")
    ELSE Return([kind |-> "Cases",
                 date |-> self.date,
                 province |-> IF other.province = self.province
                              THEN self.province ELSE "aggr",
                 country |-> IF other.country = self.country
                             THEN self.country ELSE "aggr",
                 confirmed |-> self.confirmed + other.confirmed,
                 deceased |-> self.deceased + other.deceased,
                 resolved |-> IF self.resolved >= 0 /\ other.resolved >= 0
                              THEN self.resolved + other.resolved
                              ELSE self.resolved])

\* CaseTesting.__add__ (lines 94-110).
CaseTestingAdd(self, other) ==
    IF other.kind # self.kind THEN Raise("TypeError")
    ELSE IF self.date # other.date THEN Raise("ValueError")
    ELSE Return([kind |-> "CaseTesting",
                 date |-> self.date,
                 province |-> IF other.province = self.province
                              THEN self.province ELSE "aggr",
                 country |-> IF other.country = self.country
                             THEN self.country ELSE "aggr",
                 tested |-> self.tested + other.tested,
                 under_investigation |->
                     self.under_investigation + other.under_investigation])

(***************************************************************************)
(* SpecTypes: two records are drawn and added.                             *)
(***************************************************************************)
RecordDates == {0, 1}
Provinces == {"on", "qc"}
Countries == {"ca", "us"}

\* A resolved count of -1 means that no information is available.
CasesRecords ==
    {[kind |-> "Cases", date |-> d, province |-> p, country |-> c,
      confirmed |-> n, deceased |-> m, resolved |-> r] :
        d \in RecordDates, p \in Provinces, c \in Countries,
        n \in 0..MaxCount, m \in 0..MaxCount, r \in -1..MaxCount}

CaseTestingRecords ==
    {[kind |-> "CaseTesting", date |-> d, province |-> p, country |-> c,
      tested |-> n, under_investigation |-> m] :
        d \in RecordDates, p \in Provinces, c \in Countries,
        n \in 0..MaxCount, m \in 0..MaxCount}

InitTypes ==
    /\ samples = None
    /\ start = None
    /\ cfg = DefaultCfg
    /\ Untrained
    /\ \E a \in CasesRecords \cup CaseTestingRecords :
       \E b \in CasesRecords \cup CaseTestingRecords :
          call = Pending("__add__", [self |-> a, other |-> b])

CasesAddCall ==
    /\ call.status = "pending"
    /\ call.op = "__add__"
    /\ call.args.self.kind = "Cases"
    /\ call' = Done("__add__", call.args, CasesAdd(call.args.self, call.args.other))
    /\ UNCHANGED <<samples, start, predictor>>

CaseTestingAddCall ==
    /\ call.status = "pending"
    /\ call.op = "__add__"
    /\ call.args.self.kind = "CaseTesting"
    /\ call' = Done("__add__", call.args,
                    CaseTestingAdd(call.args.self, call.args.other))
    /\ UNCHANGED <<samples, start, predictor>>

NextTypes == CasesAddCall \/ CaseTestingAddCall

SpecTypes == InitTypes /\ [][NextTypes]_vars

\* Two records of one class and one date were added.
Added(kind) ==
    /\ call.op = "__add__"
    /\ call.status = "done"
    /\ call.args.self.kind = kind
    /\ call.args.other.kind = kind
    /\ call.args.self.date = call.args.other.date

\* C19 (as claimed): when two Cases records of the same date are combined, the
\* resolved count of the result is unknown (negative) whenever the resolved count
\* of either operand is unknown (negative), and is the sum of the two resolved
\* counts when both are known (non-negative).
C19_ResolvedUnknown ==
    Added("Cases") =>
        LET a == call.args.self
            b == call.args.other
        IN /\ call.result.ok
           /\ (a.resolved < 0 \/ b.resolved < 0) => call.result.value.resolved < 0
           /\ (a.resolved >= 0 /\ b.resolved >= 0) =>
                 call.result.value.resolved = a.resolved + b.resolved

\* C20: adding two Cases (or two CaseTesting) records of the same date yields a
\* record of that date whose counts (confirmed, deceased; tested,
\* under_investigation) are the sums of the operands' counts and whose province
\* and country are the operands' common value when they agree and 'aggr' when
\* they differ.
C20_AddRecords ==
    /\ Added("Cases") =>
          LET a == call.args.self
              b == call.args.other
              c == call.result.value
          IN /\ call.result.ok
             /\ c.kind = "Cases"
             /\ c.date = a.date
             /\ c.confirmed = a.confirmed + b.confirmed
             /\ c.deceased = a.deceased + b.deceased
             /\ a.province = b.province => c.province = a.province
             /\ a.province # b.province => c.province = "aggr"
             /\ a.country = b.country => c.country = a.country
             /\ a.country # b.country => c.country = "aggr"
    /\ Added("CaseTesting") =>
          LET a == call.args.self
              b == call.args.other
              c == call.result.value
          IN /\ call.result.ok
             /\ c.kind = "CaseTesting"
             /\ c.date = a.date
             /\ c.tested = a.tested + b.tested
             /\ c.under_investigation = a.under_investigation + b.under_investigation
             /\ a.province = b.province => c.province = a.province
             /\ a.province # b.province => c.province = "aggr"
             /\ a.country = b.country => c.country = a.country
             /\ a.country # b.country => c.country = "aggr"

\* Two Cases records of one date and one country but of different provinces, with
\* non-zero counts, were added.
C20_Witness ==
    /\ Added("Cases")
    /\ call.args.self.province # call.args.other.province
    /\ call.args.self.country = call.args.other.country
    /\ call.args.self.confirmed > 0
    /\ call.args.other.confirmed > 0
    /\ call.result.ok
    /\ call.result.value.province = "aggr"
    /\ call.result.value.country = call.args.self.country
    /\ call.result.value.confirmed = call.args.self.confirmed + call.args.other.confirmed


(***************************************************************************)
(* filters.py on whole records: sum_by_date with the exceptions of the     *)
(* additions it makes.                                                     *)
(***************************************************************************)
MaxListed == 3       \* longest list of records handed to sum_by_date

\* self + other: Python calls __add__ of the left operand's class.
Add(self, other) ==
    IF self.kind = "Cases" THEN CasesAdd(self, other) ELSE CaseTestingAdd(self, other)

\* The loop of lines 61-65 that replaces the total of a date by the new record.
RECURSIVE SumRecordsLoopKeepLast(_, _)
SumRecordsLoopKeepLast(summed, cases) ==
    IF cases = <<>> THEN Return(summed)
    ELSE LET c == Head(cases)
         IN IF c.date \in DOMAIN summed
            THEN SumRecordsLoopKeepLast([summed EXCEPT ![c.date] = c], Tail(cases))
            ELSE SumRecordsLoopKeepLast((c.date :> c) @@ summed, Tail(cases))

\* The loop of lines 61-65: 'summed' maps each date seen so far to its total; an
\* exception of an addition leaves the loop and the function.
RECURSIVE SumRecordsLoop(_, _)
SumRecordsLoop(summed, cases) ==
    IF cases = <<>> THEN Return(summed)
    ELSE LET c == Head(cases)
         IN IF c.date \in DOMAIN summed
            THEN LET r == Add(summed[c.date], c)
                 IN IF r.ok
                    THEN SumRecordsLoop([summed EXCEPT ![c.date] = r.value], Tail(cases))
                    ELSE r
            ELSE SumRecordsLoop((c.date :> c) @@ summed, Tail(cases))

\* sum_by_date that returns the totals latest date first.
SumByDateLatestFirst(cases) ==
    LET r == SumRecordsLoop(<<>>, cases)
    IN IF ~r.ok THEN r
       ELSE LET dates == SortedKeys(DOMAIN r.value)
                n == Len(dates)
            IN Return([i \in 1..n |-> r.value[dates[n + 1 - i]]])

\* sum_by_date (lines 60-68) on whole records.
SumByDateRecords(cases) ==
    LET r == SumRecordsLoop(<<>>, cases)
    IN IF ~r.ok THEN r
       ELSE LET dates == SortedKeys(DOMAIN r.value)
            IN Return([i \in 1..Len(dates) |-> r.value[dates[i]]])

(***************************************************************************)
(* SpecSum: two records are added, or a list of records is summed by date. *)
(***************************************************************************)

\* A resolved count of -1 means that no information is available.
SummedRecords ==
    {[kind |-> "Cases", date |-> d, province |-> "on", country |-> "ca",
      confirmed |-> n, deceased |-> 0, resolved |-> r] :
        d \in RecordDates, n \in 0..MaxCount, r \in {-1, 1}}
    \cup
    {[kind |-> "CaseTesting", date |-> d, province |-> "on", country |-> "ca",
      tested |-> n, under_investigation |-> 0] :
        d \in RecordDates, n \in 1..MaxCount}

InitSum ==
    /\ samples = None
    /\ start = None
    /\ cfg = DefaultCfg
    /\ Untrained
    /\ \/ \E a \in SummedRecords : \E b \in SummedRecords :
             call = Pending("__add__", [self |-> a, other |-> b])
       \/ \E l \in SeqsOf(SummedRecords, 0, MaxListed) :
             call = Pending("sum_by_date", [cases |-> l])

SumByDateCall ==
    /\ call.status = "pending"
    /\ call.op = "sum_by_date"
    /\ call' = Done("sum_by_date", call.args, SumByDateRecords(call.args.cases))
    /\ UNCHANGED <<samples, start, predictor>>

NextSum == CasesAddCall \/ CaseTestingAddCall \/ SumByDateCall

SpecSum == InitSum /\ [][NextSum]_vars

\* The list has two records of one date, one a Cases and one a CaseTesting.
MixedOnOneDate(l) ==
    \E i \in 1..Len(l) : \E j \in 1..Len(l) :
        l[i].date = l[j].date /\ l[i].kind # l[j].kind

\* C21: adding two records is rejected with an error and produces no record when
\* one is a Cases and the other a CaseTesting (TypeError) or when they are of one
\* class and their dates differ (ValueError); sum_by_date over a list that mixes
\* the two record types on one date raises TypeError.
C21_AddRejects ==
    /\ (call.op = "__add__" /\ call.status = "done") =>
          LET a == call.args.self
              b == call.args.other
          IN /\ a.kind # b.kind =>
                   /\ ~call.result.ok
                   /\ call.result.error = "TypeError"
                   /\ "value" \notin DOMAIN call.result
             /\ (a.kind = b.kind /\ a.date # b.date) =>
                   /\ ~call.result.ok
                   /\ call.result.error = "ValueError"
                   /\ "value" \notin DOMAIN call.result
    /\ (call.op = "sum_by_date" /\ call.status = "done"
        /\ MixedOnOneDate(call.args.cases)) =>
          /\ ~call.result.ok
          /\ call.result.error = "TypeError"
          /\ "value" \notin DOMAIN call.result

\* A list whose first record is a CaseTesting and whose second is a Cases of the
\* same date was summed and rejected.
C21_Witness ==
    /\ call.op = "sum_by_date"
    /\ call.status = "done"
    /\ Len(call.args.cases) = 2
    /\ call.args.cases[1].kind = "CaseTesting"
    /\ call.args.cases[2].kind = "Cases"
    /\ call.args.cases[1].date = call.args.cases[2].date
    /\ ~call.result.ok
    /\ call.result.error = "TypeError"


\* The count a record is summed on, and its total over the records of date d.
Count(rec) == IF rec.kind = "Cases" THEN rec.confirmed ELSE rec.tested
CountOn(l, d) == SumTo([i \in 1..Len(l) |-> IF l[i].date = d THEN Count(l[i]) ELSE 0], Len(l))

\* C22: sum_by_date returns exactly one record per distinct date of its input, in
\* strictly increasing date order, and each returned record's confirmed (or
\* tested) count is the sum of that count over all input records of that date.
C22_SumByDate ==
    (call.op = "sum_by_date" /\ call.status = "done" /\ call.result.ok) =>
        LET l == call.args.cases
            out == call.result.value
        IN /\ {out[i].date : i \in 1..Len(out)} = {l[i].date : i \in 1..Len(l)}
           /\ \A i \in 1..(Len(out) - 1) : out[i].date < out[i + 1].date
           /\ \A i \in 1..Len(out) : Count(out[i]) = CountOn(l, out[i].date)

\* Three Cases records with non-zero counts, dated 1, 0, 1, were summed into two.
C22_Witness ==
    /\ call.op = "sum_by_date"
    /\ call.status = "done"
    /\ call.result.ok
    /\ Len(call.args.cases) = 3
    /\ \A i \in 1..3 : call.args.cases[i].kind = "Cases" /\ call.args.cases[i].confirmed > 0
    /\ call.args.cases[1].date = 1
    /\ call.args.cases[2].date = 0
    /\ call.args.cases[3].date = 1
    /\ Len(call.result.value) = 2
    /\ call.result.value[2].confirmed =
          call.args.cases[1].confirmed + call.args.cases[3].confirmed


\* The list read backwards.
Reversed(l) == [i \in 1..Len(l) |-> l[Len(l) + 1 - i]]

\* All records of the list are Cases records.
AllCases(l) == \A i \in 1..Len(l) : l[i].kind = "Cases"

\* C30 (as claimed): addition of same-date Cases records is commutative and
\* associative in every field, so the per-date totals produced by sum_by_date do
\* not depend on the order of the input records.
C30_OrderIndependent ==
    /\ Added("Cases") =>
          call.result = CasesAdd(call.args.other, call.args.self)
    /\ (call.op = "sum_by_date" /\ call.status = "done" /\ AllCases(call.args.cases)) =>
          LET l == call.args.cases
          IN /\ call.result = SumByDateRecords(Reversed(l))
             /\ (Len(l) = 3 /\ l[1].date = l[2].date /\ l[2].date = l[3].date) =>
                   call.result.value[1] = CasesAdd(l[1], CasesAdd(l[2], l[3]).value).value


\* C23: for a series of N days and index i, the regressor local_regression
\* produces for i is fitted on exactly the days max(0, i - window//2) ..
\* min(N-1, i + window//2), with those day indices as its time axis and the
\* series' own values (their logarithms in the log domain) of those days: near the
\* ends the window is clipped and no day outside 0..N-1 is read.
C23_ClippedWindows ==
    (call.op = "local_regression" /\ call.status = "done" /\ call.result.ok) =>
        LET N == Len(samples)
            half == call.args.window \div 2
        IN /\ Len(call.result.value) = N
           /\ \A i \in 0..(N - 1) :
                 LET ls == call.result.value[i + 1]
                     lo == IF i - half < 0 THEN 0 ELSE i - half
                     hi == IF i + half > N - 1 THEN N - 1 ELSE i + half
                 IN /\ Len(ls.times) = hi - lo + 1
                    /\ Len(ls.values) = hi - lo + 1
                    /\ \A j \in 1..Len(ls.times) :
                          /\ ls.times[j] = lo + j - 1
                          /\ ls.times[j] \in 0..(N - 1)
                          /\ ls.values[j] = IF call.args.log_domain
                                            THEN Log(samples[lo + j])
                                            ELSE samples[lo + j]

\* A series of four days was regressed with a window of four days: the first
\* window is clipped to days 0..2 and the last one to days 1..3.
C23_Witness ==
    /\ call.op = "local_regression"
    /\ call.status = "done"
    /\ call.result.ok
    /\ Len(samples) = 4
    /\ call.args.window = 4
    /\ call.args.order = 1
    /\ call.result.value[1].times = <<0, 1, 2>>
    /\ call.result.value[4].times = <<1, 2, 3>>


\* The square of a half-width c * sqrt(v), in units of c^2: v.
SquaredOverC2(h) == IF h = RInt(0) THEN RInt(0) ELSE h[3][2]

\* p <= q for rationals.
RLeq(p, q) == RSub(q, p)[1] >= 0

\* C24: for every fitted regressor, every time t and every confidence level
\* alpha, prediction_fit(t, alpha) >= confidence_fit(t, alpha), and the squared
\* half-widths differ by exactly the noise variance times the squared critical
\* value (both are the critical value times a square root, so they compare as
\* the radicands do).
C24_PredictionWiderThanConfidence ==
    (call.status = "done" /\ call.op \in {"prediction_fit", "confidence_fit"}
     /\ model # None) =>
        LET ls == model[1]
            t == call.args.time
            alpha == call.args.alpha
            pred == IF call.op = "prediction_fit" THEN call.result.value
                    ELSE PredictionFitAt(ls, t, alpha)
            conf == IF call.op = "confidence_fit" THEN call.result.value
                    ELSE ConfidenceFitAt(ls, t, alpha)
        IN /\ RLeq(RInt(0), SquaredOverC2(conf))
           /\ RLeq(SquaredOverC2(conf), SquaredOverC2(pred))
           /\ RSub(SquaredOverC2(pred), SquaredOverC2(conf)) = ls.noise
           /\ ls.noise # RInt(0) => pred # conf

\* The prediction band of a regressor fitted to disturbed samples (non-zero
\* noise) was read beyond the last sample time.
C24_Witness ==
    /\ call.op = "prediction_fit"
    /\ call.status = "done"
    /\ model # None
    /\ model[1].noise # RInt(0)
    /\ call.args.time = RInt(MaxFitTime + 1)
    /\ call.result.value # ConfidenceFitAt(model[1], call.args.time, call.args.alpha)
    /\ ConfidenceFitAt(model[1], call.args.time, call.args.alpha) # RInt(0)


(***************************************************************************)
(* Further properties of the predictor, under Spec.                        *)
(***************************************************************************)

\* C25 (as claimed): for every num_days >= 0, 0 included, predict on a trained
\* predictor returns a case array of num_days + 1 entries, a bounds array of
\* num_days + 1 rows and an index array of num_days + 1 entries; in particular
\* train on a predictor configured with reporting_lag = 0 completes (on a series
\* long enough for its analysis window and an order the window can fit).
C25_PredictEveryNumDays ==
    /\ (call.op = "predict" /\ call.args.had_returned /\ call.args.num_days >= 0) =>
          /\ call.result.ok
          /\ Len(call.result.value.cases) = call.args.num_days + 1
          /\ Len(call.result.value.bounds) = call.args.num_days + 1
          /\ Len(call.result.value.indices) = call.args.num_days + 1
    /\ (/\ call.op = "train"
        /\ cfg.reporting_lag = 0
        /\ Len(samples) >= cfg.analysis_window
        /\ cfg.analysis_window > cfg.model_order + 1) =>
          call.result.ok


\* C26 (as claimed): the series indices returned by predict start with the first
\* validation sample: element 0 of the index array is the first index of the
\* predictor's validation window (N - reporting_lag), and the following elements
\* are consecutive days.
C26_IndicesStartAtValidation ==
    (call.op = "predict" /\ call.result.ok /\ call.args.had_returned
     /\ validation_indices # <<>>) =>
        LET ind == call.result.value.indices
        IN /\ ind[1] = validation_indices[1]
           /\ \A n \in 1..(Len(ind) - 1) : ind[n + 1] = ind[n] + 1


(***************************************************************************)
(* operations.py: estimate_slope in exact arithmetic.  With c the Student-t *)
(* quantile of the call, its numbers have the form q + c * sum a_k sqrt(v_k) *)
(* with rational q, a_k and v_k >= 0: [rat |-> q, roots |-> <<a_k, v_k>>..].  *)
(***************************************************************************)
Form(q, roots) == [rat |-> q, roots |-> roots]

\* f * r for a rational r.
ScaleForm(f, r) ==
    Form(RMul(f.rat, r), [k \in 1..Len(f.roots) |-> <<RMul(f.roots[k][1], r), f.roots[k][2]>>])

\* s[1] + ... + s[n] of such numbers.
RECURSIVE FormSumTo(_, _)
FormSumTo(s, n) ==
    IF n = 0 THEN Form(RInt(0), <<>>)
    ELSE LET rest == FormSumTo(s, n - 1)
         IN Form(RAdd(rest.rat, s[n].rat), rest.roots \o s[n].roots)

\* weights + sign * cv, with cv = c * sqrt(variances) (confidence, lines 200-202).
WeightsShifted(ls, sign) ==
    [j \in 1..Len(ls.weights) |-> Form(ls.weights[j], <<<<RInt(sign), ls.variances[j]>>>>)]

\* derivative and evalpoly on such numbers.
DerivativeForm(b) == [i \in 1..(Len(b) - 1) |-> ScaleForm(b[i + 1], RInt(i))]
EvalPolyForm(b, t) == FormSumTo([i \in 1..Len(b) |-> ScaleForm(b[i], RPow(t, i - 1))], Len(b))

\* The evaluation time taken one day before the index.
SlopeTimeDayBefore(i) == RInt(i - 1)

\* Line 81: t0 = np.array([i]).
SlopeTime(i) == RInt(i)

\* Lines 78-85 for the regressor of index i (0-based): the row (slope, upper, lower).
SlopeRow(ls, i) ==
    <<Form(EvalPoly(Derivative(ls.weights), SlopeTime(i)), <<>>),
      EvalPolyForm(DerivativeForm(WeightsShifted(ls, 1)), SlopeTime(i)),
      EvalPolyForm(DerivativeForm(WeightsShifted(ls, -1)), SlopeTime(i))>>

\* estimate_slope (lines 74-87); the confidence level only sets c > 0.
EstimateSlopeRows(x, window, order) ==
    LET regressions == LocalRegression(x, window, FALSE, order)
    IN IF ~regressions.ok THEN regressions
       ELSE Return([i \in 1..Len(x) |-> SlopeRow(Fitted(regressions.value[i]), i - 1)])

(***************************************************************************)
(* SpecSlope: estimate_slope called on a drawn series.                     *)
(***************************************************************************)
SlopeSeries == SeqsOf(0..MaxValue, 1, MaxRows)

InitSlope ==
    /\ samples \in SlopeSeries
    /\ start = Some(0)
    /\ cfg = DefaultCfg
    /\ Untrained
    /\ \E w \in 1..MaxWindow, k \in 0..MaxOrder, alpha \in Alphas :
          call = Pending("estimate_slope", [window |-> w, order |-> k, confidence |-> alpha])

EstimateSlopeRowsCall ==
    /\ call.op = "estimate_slope"
    /\ call.status = "pending"
    /\ call' = Done("estimate_slope", call.args,
                    EstimateSlopeRows(samples, call.args.window, call.args.order))
    /\ UNCHANGED <<samples, start, predictor>>

NextSlope == EstimateSlopeRowsCall

SpecSlope == InitSlope /\ [][NextSlope]_vars

\* f <= g, decided from the signs: g - f has a non-negative rational part and no
\* negative multiple of a non-zero square root (c > 0).
FormLeq(f, g) ==
    /\ RLeq(f.rat, g.rat)
    /\ \A k \in 1..Len(g.roots) : g.roots[k][2] = RInt(0) \/ g.roots[k][1][1] >= 0
    /\ \A k \in 1..Len(f.roots) : f.roots[k][2] = RInt(0) \/ f.roots[k][1][1] <= 0

\* C27: in every row (slope, upper, lower) returned by estimate_slope,
\* lower <= slope <= upper, for every series, window, order and confidence level
\* for which the call succeeds.
C27_SlopeBetweenBounds ==
    (call.op = "estimate_slope" /\ call.status = "done" /\ call.result.ok) =>
        \A i \in 1..Len(call.result.value) :
            LET row == call.result.value[i]
            IN /\ FormLeq(row[3], row[1])
               /\ FormLeq(row[1], row[2])

\* An order-2 slope estimate returned a row, for an index after the first, whose
\* bounds are strictly apart from the slope on both weights' uncertainties.
C27_Witness ==
    /\ call.op = "estimate_slope"
    /\ call.status = "done"
    /\ call.result.ok
    /\ call.args.order = 2
    /\ \E i \in 2..Len(call.result.value) :
          LET row == call.result.value[i]
          IN /\ Len(row[2].roots) = 2
             /\ \A k \in 1..2 : row[2].roots[k][2] # RInt(0) /\ row[2].roots[k][1][1] > 0
             /\ \A k \in 1..2 : row[3].roots[k][1][1] < 0


C29_FailedTrainChangesNothing ==
    (call.op = "train" /\ ~call.result.ok) =>
        /\ model = call.args.before.model
        /\ training_indices = call.args.before.training_indices
        /\ validation_indices = call.args.before.validation_indices

====
